---- MODULE Spec2Model ----
(***************************************************************************)
(* Model of logger/logger_server.py: the Figma plugin logger.              *)
(*                                                                         *)
(* POST /log decodes the screenshots to files of the media directory,      *)
(* then reads generation_logs.json, appends one record and rewrites the    *)
(* whole file.  GET /logs reads the file and returns a suffix of it.       *)
(*                                                                         *)
(* Text is modelled as a sequence of one-character strings, bytes as a     *)
(* sequence of integers 0..255.                                            *)
(***************************************************************************)
EXTENDS Integers, Sequences, FiniteSets, TLC

\* ------------------------------------------------------------------ bounds

\* Number of POST /log requests a behaviour receives.
MaxReqs == 2

\* Largest limit a GET /logs is called with (limits are 0..MaxLimit).
MaxLimit == 2

\* ------------------------------------------------------- program constants

\* The [:19] of the sanitized timestamp.
TokenLen == 19

\* The status code of every HTTPException the handlers raise.
HTTP_ERROR == 500

\* ------------------------------------------------------------ text helpers

Range(s) == {s[i] : i \in 1..Len(s)}

Min(a, b) == IF a <= b THEN a ELSE b

Max(a, b) == IF a >= b THEN a ELSE b

\* str.replace(old, new) for one-character old and new.
Replace(s, old, new) == [i \in 1..Len(s) |-> IF s[i] = old THEN new ELSE s[i]]

\* s[:n] of Python, n >= 0.
Prefix(s, n) == SubSeq(s, 1, Min(n, Len(s)))

\* Position of the first c in s, 0 when there is none.
FirstIndex(s, c) ==
    IF c \in Range(s) THEN CHOOSE i \in 1..Len(s) : s[i] = c /\ \A j \in 1..(i - 1) : s[j] # c
    ELSE 0

\* str.split(sep) of Python for a one-character sep: every segment between
\* separators, in order.
RECURSIVE Split(_, _)
Split(s, sep) ==
    IF sep \notin Range(s) THEN <<s>>
    ELSE LET i == FirstIndex(s, sep)
         IN  <<SubSeq(s, 1, i - 1)>> \o Split(SubSeq(s, i + 1, Len(s)), sep)

\* logs[start:] of Python for any integer start (a negative start counts
\* from the end and is clamped at the beginning).
PySliceFrom(logs, start) ==
    LET n == Len(logs)
        from == IF start < 0 THEN Max(n + start, 0) ELSE Min(start, n)
    IN  SubSeq(logs, from + 1, n)

\* ------------------------------------------------------------------ base64

B64Alphabet ==
    <<"A", "B", "C", "D", "E", "F", "G", "H", "I", "J", "K", "L", "M",
      "N", "O", "P", "Q", "R", "S", "T", "U", "V", "W", "X", "Y", "Z",
      "a", "b", "c", "d", "e", "f", "g", "h", "i", "j", "k", "l", "m",
      "n", "o", "p", "q", "r", "s", "t", "u", "v", "w", "x", "y", "z",
      "0", "1", "2", "3", "4", "5", "6", "7", "8", "9", "+", "/">>

B64Value(c) == (CHOOSE i \in 1..Len(B64Alphabet) : B64Alphabet[i] = c) - 1

\* One character of base64.b64decode(s) (validate=False): st is the decoder's
\* state.  Characters outside the alphabet are discarded, '=' ends the data
\* once it completes a quad.
B64Step(st, c) ==
    IF st.done THEN st
    ELSE IF c = "="
    THEN IF st.quad >= 2 /\ st.quad + st.pads + 1 >= 4
         THEN [st EXCEPT !.done = TRUE]
         ELSE IF st.quad >= 2 THEN [st EXCEPT !.pads = @ + 1] ELSE st
    ELSE IF c \notin Range(B64Alphabet) THEN st
    ELSE LET v == B64Value(c)
         IN  CASE st.quad = 0 ->
                    [st EXCEPT !.quad = 1, !.left = v, !.pads = 0]
               [] st.quad = 1 ->
                    [st EXCEPT !.quad = 2, !.left = v % 16, !.pads = 0,
                               !.out = Append(@, st.left * 4 + v \div 16)]
               [] st.quad = 2 ->
                    [st EXCEPT !.quad = 3, !.left = v % 4, !.pads = 0,
                               !.out = Append(@, st.left * 16 + v \div 4)]
               [] st.quad = 3 ->
                    [st EXCEPT !.quad = 0, !.left = 0, !.pads = 0,
                               !.out = Append(@, st.left * 64 + v)]

RECURSIVE B64Run(_, _, _)
B64Run(st, s, i) == IF i > Len(s) THEN st ELSE B64Run(B64Step(st, s[i]), s, i + 1)

\* base64.b64decode(s): the bytes, or the binascii.Error it raises when the
\* data characters do not end on a quad.
b64decode(s) ==
    LET st == B64Run([quad |-> 0, left |-> 0, pads |-> 0, out |-> <<>>, done |-> FALSE], s, 1)
    IN  IF st.done \/ st.quad = 0
        THEN [ok |-> TRUE, bytes |-> st.out]
        ELSE [ok |-> FALSE, bytes |-> <<>>]

\* ------------------------------------------------------------------ values

\* A JSON value of a screenshots mapping: the key is absent, its value is
\* null, or its value is a string.  None and a string of the persisted
\* record use the same shape.
Absent == [kind |-> "absent", s |-> <<>>]

Null == [kind |-> "null", s |-> <<>>]

Str(s) == [kind |-> "str", s |-> s]

Slots == {"before", "after"}

\* ------------------------------------------------------------------ inputs

TS_123 ==
    <<"2", "0", "2", "4", "-", "0", "1", "-", "0", "1", "T", "1", "0", ":",
      "0", "0", ":", "0", "0", ".", "1", "2", "3", "Z">>

TS_456 ==
    <<"2", "0", "2", "4", "-", "0", "1", "-", "0", "1", "T", "1", "0", ":",
      "0", "0", ":", "0", "0", ".", "4", "5", "6", "Z">>

TS_SAFE ==
    <<"2", "0", "2", "4", "-", "0", "1", "-", "0", "1", "_", "1", "0", "-",
      "0", "0", "-", "0", "0">>

TS_SHORT == <<"T", "1", ":", "2", ".", "3">>

DataUriPrefix ==
    <<"d", "a", "t", "a", ":", "i", "m", "a", "g", "e", "/", "p", "n", "g",
      ";", "b", "a", "s", "e", "6", "4", ",">>

B64_ABC == <<"Q", "U", "J", "D">>

B64_DEF == <<"R", "E", "V", "G">>

\* Three data characters: a quad that is never completed.
B64_SHORT == <<"Q", "U", "J">>

\* No character of the base64 alphabet at all.
B64_JUNK == <<"!", "!", "!", "!">>

\* A string with two commas.
TWO_COMMAS == <<"x", ",">> \o B64_ABC \o <<",">> \o B64_DEF

\* The timestamps a request is sent with: TS_123, TS_456 and TS_SAFE
\* sanitize to one token, TS_SHORT to another.
Timestamps == {TS_123, TS_SAFE, TS_SHORT}

BeforeShots ==
    {Null, Str(<<>>), Str(B64_ABC), Str(DataUriPrefix \o B64_ABC),
     Str(B64_DEF), Str(B64_SHORT), Str(B64_JUNK), Str(TWO_COMMAS)}

AfterShots == {Absent, Str(B64_DEF), Str(B64_SHORT)}

\* The smaller inputs of the concurrent specification.
RaceTimestamps == {TS_123, TS_456}

RaceBeforeShots == {Str(B64_ABC), Str(B64_SHORT)}

RaceAfterShots == {Absent, Str(B64_DEF)}

\* ------------------------------------------------------------ pure helpers

\* Mutant: the [:19] is forgotten.
Sanitize_NoTruncate(ts) == Replace(Replace(Replace(ts, ":", "-"), ".", "-"), "T", "_")

\* log.timestamp.replace(":", "-").replace(".", "-").replace("T", "_")[:19]
Sanitize(ts) == Prefix(Replace(Replace(Replace(ts, ":", "-"), ".", "-"), "T", "_"), TokenLen)

\* Mutant: the test is "is not None" instead of truthiness.
Truthy_NotNone(v) == v.kind = "str"

\* The truth value Python gives log.screenshots.get(slot).
Truthy(v) == v.kind = "str" /\ v.s # <<>>

\* s.split(",")[1] if "," in s else s
base64_data(s) == IF "," \in Range(s) THEN Split(s, ",")[2] ELSE s

\* f"{timestamp_safe}-{slot}.png": the file's name inside MEDIA_DIR.
SlotText(slot) == IF slot = "before" THEN <<"b", "e", "f", "o", "r", "e">> ELSE <<"a", "f", "t", "e", "r">>

FileName(token, slot) == token \o <<"-">> \o SlotText(slot) \o <<".", "p", "n", "g">>

\* Mutant: the before branch records the after branch's path.
RelPath_After(token, slot) == <<"m", "e", "d", "i", "a", "/">> \o FileName(token, "after")

\* f"media/{timestamp_safe}-{slot}.png": the path stored in the record.
RelPath(token, slot) == <<"m", "e", "d", "i", "a", "/">> \o FileName(token, slot)

\* Mutant: logs[:limit], the oldest records instead of the most recent.
RecentLogs_Oldest(logs, limit) == Prefix(logs, limit)

\* logs[-limit:]
RecentLogs(logs, limit) == PySliceFrom(logs, 0 - limit)

\* ------------------------------------------------------------------- state

Reqs == 1..MaxReqs

Limits == 0..MaxLimit

VARIABLES
    LOG_FILE,           \* generation_logs.json: [valid, recs]; valid is FALSE
                        \* while the file is truncated or partly written
    MEDIA_DIR,          \* the media directory: file name -> bytes, for the files that exist
    pc,                 \* per request: the statement log_generation is at
    log,                \* per request: the GenerationLog body
    timestamp_safe,     \* per request: local timestamp_safe
    screenshot_paths,   \* per request: local screenshot_paths
    image_bytes,        \* per request: local image_bytes
    logs,               \* per request: local logs
    resp,               \* per request: the HTTP response
    getResp,            \* the response of the latest GET /logs, with the
                        \* logs it read
    succeeded,          \* history: per request that returned success, in order,
                        \* the entry it built and the slots it carried
    readAt,             \* history: Len(succeeded) when the request read the file
    written             \* history: names of the files a write has completed on

vars ==
    <<LOG_FILE, MEDIA_DIR, pc, log, timestamp_safe, screenshot_paths, image_bytes,
      logs, resp, getResp, succeeded, readAt, written>>

NoShots == [before |-> Absent, after |-> Absent]

NoPaths == [before |-> Null, after |-> Null]

NoLog == [timestamp |-> <<>>, designPrompt |-> 0, screenshots |-> NoShots]

NoResp == [status_code |-> 0, status |-> "none", logIndex |-> 0, detail |-> "none"]

NoGet == [status_code |-> 0, limit |-> 0, read |-> <<>>, total |-> 0, logs |-> <<>>]

\* Lines 32-38 on a fresh deployment: both directories are created and the
\* log file is initialised with json.dump([], f).
Init ==
    /\ LOG_FILE = [valid |-> TRUE, recs |-> <<>>]
    /\ MEDIA_DIR = <<>>
    /\ pc = [r \in Reqs |-> "idle"]
    /\ log = [r \in Reqs |-> NoLog]
    /\ timestamp_safe = [r \in Reqs |-> <<>>]
    /\ screenshot_paths = [r \in Reqs |-> NoPaths]
    /\ image_bytes = [r \in Reqs |-> <<>>]
    /\ logs = [r \in Reqs |-> <<>>]
    /\ resp = [r \in Reqs |-> NoResp]
    /\ getResp = NoGet
    /\ succeeded = <<>>
    /\ readAt = [r \in Reqs |-> 0]
    /\ written = {}

\* ----------------------------------------------------------------- helpers

WritePc(slot) == IF slot = "before" THEN "write_before" ELSE "write_after"

AfterSlot(slot) == IF slot = "before" THEN "after" ELSE "read"

\* The keys log_entry copies verbatim are represented by timestamp and
\* designPrompt (figmaDOM, descriptionAPI and generationAPI are copied the
\* same way and never read); the client numbers its prompts.
log_entry(body, paths) ==
    [timestamp |-> body.timestamp, designPrompt |-> body.designPrompt, screenshots |-> paths]

\* Mutant: logs.insert(0, log_entry).
WriteBack_Prepend(old, entry) == <<entry>> \o old

\* Mutant: the append is lost and the list is written back as it was read.
WriteBack_Forgets(old, entry) == old

\* logs.append(log_entry): the list json.dump writes back.
WriteBack(old, entry) == Append(old, entry)

\* "logIndex": len(logs) - 1, logs being the list after the append.
LogIndex(appended) == Len(appended) - 1

\* except Exception as e: raise HTTPException(500, f"Error saving log: {e}");
\* what names the exception.
SaveError(what) ==
    [status_code |-> HTTP_ERROR, status |-> "error", logIndex |-> 0, detail |-> what]

Raise(r, what) ==
    /\ pc' = [pc EXCEPT ![r] = "done"]
    /\ resp' = [resp EXCEPT ![r] = SaveError(what)]

InFlight(r) == pc[r] \notin {"idle", "closed"}

\* ------------------------------------------------------ POST /log, by step

\* The request arrives (requests are numbered in arrival order); the handler
\* computes timestamp_safe and initialises screenshot_paths.
Receive(r, ts, before, after) ==
    /\ pc[r] = "idle"
    /\ \A q \in Reqs : q < r => pc[q] # "idle"
    /\ pc' = [pc EXCEPT ![r] = "before"]
    /\ log' = [log EXCEPT ![r] = [timestamp |-> ts, designPrompt |-> r,
                                  screenshots |-> [before |-> before, after |-> after]]]
    /\ timestamp_safe' = [timestamp_safe EXCEPT ![r] = Sanitize(ts)]
    /\ screenshot_paths' = [screenshot_paths EXCEPT ![r] = NoPaths]
    /\ UNCHANGED <<LOG_FILE, MEDIA_DIR, image_bytes, logs, resp, getResp, succeeded, readAt, written>>

\* if log.screenshots.get(slot): is false.
SkipShot(r, slot) ==
    /\ pc[r] = slot
    /\ ~Truthy(log[r].screenshots[slot])
    /\ pc' = [pc EXCEPT ![r] = AfterSlot(slot)]
    /\ UNCHANGED <<LOG_FILE, MEDIA_DIR, log, timestamp_safe, screenshot_paths, image_bytes,
                   logs, resp, getResp, succeeded, readAt, written>>

\* base64.b64decode raises: nothing of this slot is written.
DecodeFail(r, slot) ==
    /\ pc[r] = slot
    /\ Truthy(log[r].screenshots[slot])
    /\ ~b64decode(base64_data(log[r].screenshots[slot].s)).ok
    /\ Raise(r, "binascii.Error")
    /\ UNCHANGED <<LOG_FILE, MEDIA_DIR, log, timestamp_safe, screenshot_paths, image_bytes,
                   logs, getResp, succeeded, readAt, written>>

\* The payload decodes; open(path, "wb") creates or truncates the file.
OpenImage(r, slot) ==
    /\ pc[r] = slot
    /\ Truthy(log[r].screenshots[slot])
    /\ LET d == b64decode(base64_data(log[r].screenshots[slot].s))
           name == FileName(timestamp_safe[r], slot)
       IN  /\ d.ok
           /\ image_bytes' = [image_bytes EXCEPT ![r] = d.bytes]
           /\ MEDIA_DIR' = (name :> <<>>) @@ MEDIA_DIR
           /\ UNCHANGED written
    /\ pc' = [pc EXCEPT ![r] = WritePc(slot)]
    /\ UNCHANGED <<LOG_FILE, log, timestamp_safe, screenshot_paths, logs, resp, getResp,
                   succeeded, readAt>>

\* f.write(image_bytes) and the close; the path is recorded.
WriteImage(r, slot) ==
    /\ pc[r] = WritePc(slot)
    /\ LET name == FileName(timestamp_safe[r], slot)
       IN  /\ MEDIA_DIR' = (name :> image_bytes[r]) @@ MEDIA_DIR
           /\ written' = written \cup {name}
    /\ screenshot_paths' = [screenshot_paths EXCEPT ![r][slot] = Str(RelPath(timestamp_safe[r], slot))]
    /\ pc' = [pc EXCEPT ![r] = AfterSlot(slot)]
    /\ UNCHANGED <<LOG_FILE, log, timestamp_safe, image_bytes, logs, resp, getResp,
                   succeeded, readAt>>

\* f.write(image_bytes) raises OSError (disk full): the file stays truncated.
WriteImageFail(r, slot) ==
    /\ pc[r] = WritePc(slot)
    /\ Raise(r, "OSError")
    /\ UNCHANGED <<LOG_FILE, MEDIA_DIR, log, timestamp_safe, screenshot_paths, image_bytes,
                   logs, getResp, succeeded, readAt, written>>

\* with open(LOG_FILE, 'r') as f: logs = json.load(f)
ReadLog(r) ==
    /\ pc[r] = "read"
    /\ LOG_FILE.valid
    /\ logs' = [logs EXCEPT ![r] = LOG_FILE.recs]
    /\ readAt' = [readAt EXCEPT ![r] = Len(succeeded)]
    /\ pc' = [pc EXCEPT ![r] = "open"]
    /\ UNCHANGED <<LOG_FILE, MEDIA_DIR, log, timestamp_safe, screenshot_paths, image_bytes,
                   resp, getResp, succeeded, written>>

\* json.load raises JSONDecodeError on a truncated or partly written file.
ReadLogFail(r) ==
    /\ pc[r] = "read"
    /\ ~LOG_FILE.valid
    /\ Raise(r, "JSONDecodeError")
    /\ UNCHANGED <<LOG_FILE, MEDIA_DIR, log, timestamp_safe, screenshot_paths, image_bytes,
                   logs, getResp, succeeded, readAt, written>>

\* logs.append(log_entry); open(LOG_FILE, 'w') truncates the file to nothing.
OpenLog(r) ==
    /\ pc[r] = "open"
    /\ logs' = [logs EXCEPT ![r] = WriteBack(logs[r], log_entry(log[r], screenshot_paths[r]))]
    /\ LOG_FILE' = [valid |-> FALSE, recs |-> <<>>]
    /\ pc' = [pc EXCEPT ![r] = "dump"]
    /\ UNCHANGED <<MEDIA_DIR, log, timestamp_safe, screenshot_paths, image_bytes, resp,
                   getResp, succeeded, readAt, written>>

\* json.dump(logs, f, indent=2) completes and the handler returns success.
DumpLog(r) ==
    /\ pc[r] = "dump"
    /\ LOG_FILE' = [valid |-> TRUE, recs |-> logs[r]]
    /\ resp' = [resp EXCEPT ![r] = [status_code |-> 200, status |-> "success",
                                    logIndex |-> LogIndex(logs[r]), detail |-> "none"]]
    /\ succeeded' = Append(succeeded,
          [entry |-> log_entry(log[r], screenshot_paths[r]),
           carried |-> {slot \in Slots : log[r].screenshots[slot].kind = "str"
                                          /\ log[r].screenshots[slot].s # <<>>}])
    /\ pc' = [pc EXCEPT ![r] = "done"]
    /\ UNCHANGED <<MEDIA_DIR, log, timestamp_safe, screenshot_paths, image_bytes, logs,
                   getResp, readAt, written>>

\* json.dump raises OSError part way (disk full): the file keeps a prefix of
\* the text, which is no JSON document.
DumpFail(r) ==
    /\ pc[r] = "dump"
    /\ Raise(r, "OSError")
    /\ UNCHANGED <<LOG_FILE, MEDIA_DIR, log, timestamp_safe, screenshot_paths, image_bytes,
                   logs, getResp, succeeded, readAt, written>>

\* The response is sent and the handler's frame is gone.
Return(r) ==
    /\ pc[r] = "done"
    /\ pc' = [pc EXCEPT ![r] = "closed"]
    /\ log' = [log EXCEPT ![r] = NoLog]
    /\ timestamp_safe' = [timestamp_safe EXCEPT ![r] = <<>>]
    /\ screenshot_paths' = [screenshot_paths EXCEPT ![r] = NoPaths]
    /\ image_bytes' = [image_bytes EXCEPT ![r] = <<>>]
    /\ logs' = [logs EXCEPT ![r] = <<>>]
    /\ UNCHANGED <<LOG_FILE, MEDIA_DIR, resp, getResp, succeeded, readAt, written>>

\* --------------------------------------------------------------- GET /logs

\* get_logs(limit): the whole handler.
get_logs(limit) ==
    /\ getResp' =
          IF LOG_FILE.valid
          THEN [status_code |-> 200, limit |-> limit, read |-> LOG_FILE.recs,
                total |-> Len(LOG_FILE.recs), logs |-> RecentLogs(LOG_FILE.recs, limit)]
          ELSE [status_code |-> HTTP_ERROR, limit |-> limit, read |-> <<>>,
                total |-> 0, logs |-> <<>>]
    /\ UNCHANGED <<LOG_FILE, MEDIA_DIR, pc, log, timestamp_safe, screenshot_paths, image_bytes,
                   logs, resp, succeeded, readAt, written>>

\* ---------------------------------------------------------- specifications

Step(r) ==
    \/ \E slot \in Slots : SkipShot(r, slot)
    \/ \E slot \in Slots : DecodeFail(r, slot)
    \/ \E slot \in Slots : OpenImage(r, slot)
    \/ \E slot \in Slots : WriteImage(r, slot)
    \/ \E slot \in Slots : WriteImageFail(r, slot)
    \/ ReadLog(r)
    \/ ReadLogFail(r)
    \/ OpenLog(r)
    \/ DumpLog(r)
    \/ DumpFail(r)
    \/ Return(r)

Quiet == \A r \in Reqs : ~InFlight(r)

\* One request at a time: the handlers are coroutines without an await, so a
\* single event loop runs each of them to its end before the next one.
Next ==
    \/ \E r \in Reqs, ts \in Timestamps, before \in BeforeShots, after \in AfterShots :
          Quiet /\ Receive(r, ts, before, after)
    \/ \E r \in Reqs : Step(r)

Spec == Init /\ [][Next]_vars

\* One request at a time as in Spec, POST /log with few inputs and GET /logs
\* between the submissions.
GetNext ==
    \/ \E r \in Reqs, before \in RaceBeforeShots :
          Quiet /\ Receive(r, TS_123, before, Absent)
    \/ \E r \in Reqs : Step(r)
    \/ \E limit \in Limits : Quiet /\ get_logs(limit)

GetSpec == Init /\ [][GetNext]_vars

\* Several worker processes on the same data directory: the steps of the
\* requests interleave freely.
RaceNext ==
    \/ \E r \in Reqs, ts \in RaceTimestamps, before \in RaceBeforeShots, after \in RaceAfterShots :
          Receive(r, ts, before, after)
    \/ \E r \in Reqs : Step(r)

RaceSpec == Init /\ [][RaceNext]_vars

\* ------------------------------------------------- what the claims speak of

\* The records of the log file written for request r.
RecordsOf(r) == {i \in 1..Len(LOG_FILE.recs) : LOG_FILE.recs[i].designPrompt = r}

\* Request r has just returned success: its frame is still there.
JustSucceeded(r) == pc[r] = "done" /\ resp[r].status = "success"

Entries == [i \in 1..Len(succeeded) |-> succeeded[i].entry]

\* The token as the specification words it: ':' and '.' become '-', 'T'
\* becomes '_', and the first 19 characters are kept.
TokenOf(ts) ==
    LET n == IF Len(ts) < 19 THEN Len(ts) ELSE 19
    IN  [i \in 1..n |-> CASE ts[i] \in {":", "."} -> "-"
                          [] ts[i] = "T" -> "_"
                          [] OTHER -> ts[i]]

\* <token>-<slot>.png and media/<token>-<slot>.png, spelled out.
NameOf(token, slot) ==
    token \o (IF slot = "before"
              THEN <<"-", "b", "e", "f", "o", "r", "e", ".", "p", "n", "g">>
              ELSE <<"-", "a", "f", "t", "e", "r", ".", "p", "n", "g">>)

PathOf(token, slot) == <<"m", "e", "d", "i", "a", "/">> \o NameOf(token, slot)

\* Everything after the first comma of s when s has a comma, else s.
AfterFirstComma(s) ==
    IF "," \in Range(s) THEN SubSeq(s, FirstIndex(s, ",") + 1, Len(s)) ELSE s

\* The strict reading of base64: s is well formed when it is quads of
\* alphabet characters, the last one possibly padded with one or two '='.
WellFormedB64(s) ==
    /\ Len(s) % 4 = 0
    /\ \A i \in 1..Len(s) :
          \/ s[i] \in Range(B64Alphabet)
          \/ s[i] = "=" /\ i >= Len(s) - 1 /\ \A j \in i..Len(s) : s[j] = "="

\* A screenshot value that is a string whose payload is not base64.
Malformed(v) == v.kind = "str" /\ ~WellFormedB64(AfterFirstComma(v.s))

\* ------------------------------------------------------------------ claims

\* C1: with POST /log handled one at a time, the log file holds exactly the
\* records of the successful submissions, unchanged, in the order they were
\* received: each success appends one record at the end and nothing is
\* updated, reordered or removed.
C1_AppendOnly == LOG_FILE.valid => LOG_FILE.recs = Entries

C1_Witness ==
    /\ Quiet
    /\ LOG_FILE.valid
    /\ Len(LOG_FILE.recs) = 2
    /\ \A r \in {1, 2} : resp[r].status = "success"

\* C2: a POST /log whose screenshots.before is a malformed base64 string
\* answers HTTP 500 and leaves no record of the request in the log file.
C2_MalformedRejected ==
    \A r \in Reqs :
        (pc[r] = "done" /\ Malformed(log[r].screenshots.before)) =>
            /\ resp[r].status_code = 500
            /\ LOG_FILE.valid => RecordsOf(r) = {}

\* C3: for a log of M records and a limit N >= 1, GET /logs answers total = M
\* and the last min(N, M) records in stored order.
C3_RecentWindow ==
    (getResp.status_code = 200 /\ getResp.limit >= 1) =>
        LET M == Len(getResp.read)
            k == IF getResp.limit <= M THEN getResp.limit ELSE M
        IN  /\ getResp.total = M
            /\ Len(getResp.logs) = k
            /\ \A i \in 1..k : getResp.logs[i] = getResp.read[M - k + i]

C3_Witness ==
    /\ getResp.status_code = 200
    /\ getResp.limit = 1
    /\ Len(getResp.read) = 2
    /\ getResp.logs = <<getResp.read[2]>>

\* C4: for a log of M >= 1 records, GET /logs?limit=0 answers an empty list
\* and total = M.
C4_LimitZeroEmpty ==
    (getResp.status_code = 200 /\ getResp.limit = 0 /\ Len(getResp.read) >= 1) =>
        /\ getResp.logs = <<>>
        /\ getResp.total = Len(getResp.read)

\* C5: when the latest successful POST /log read the file before an earlier
\* successful one wrote it, the file holds the later writer's record and
\* not the earlier one's: the update is lost.
C5_LostUpdate ==
    \A n \in 1..Len(succeeded) : \A i \in 1..(n - 1) :
        (/\ n = Len(succeeded)
         /\ LOG_FILE.valid
         /\ readAt[succeeded[n].entry.designPrompt] < i) =>
            /\ succeeded[n].entry \in Range(LOG_FILE.recs)
            /\ succeeded[i].entry \notin Range(LOG_FILE.recs)

\* Both calls returned success and the file holds the later writer's record only.
C5_Witness ==
    /\ Quiet
    /\ Len(succeeded) = 2
    /\ \A r \in {1, 2} : resp[r].status = "success"
    /\ LOG_FILE.valid
    /\ LOG_FILE.recs = <<succeeded[2].entry>>

\* C6: in every reachable state the content of generation_logs.json is a
\* syntactically valid array of records.
C6_AlwaysValid == LOG_FILE.valid

\* The record request r has just appended (the last one of the file).
Persisted(r) == LOG_FILE.recs[Len(LOG_FILE.recs)]

Stored(r) ==
    JustSucceeded(r) /\ LOG_FILE.valid /\ Len(LOG_FILE.recs) >= 1 /\ Persisted(r).designPrompt = r

\* C7, as claimed: for each slot of a successful POST /log, the persisted
\* screenshots[slot] is null exactly when the submitted value is absent or
\* null, and for every string, whatever its content, is the path
\* media/<token>-<slot>.png of a file that was written.
C7_NullIffAbsent ==
    \A r \in Reqs : \A slot \in Slots :
        JustSucceeded(r) =>
            LET v == log[r].screenshots[slot]
                token == TokenOf(log[r].timestamp)
            IN  /\ Stored(r)
                /\ (Persisted(r).screenshots[slot] = Null) <=> (v.kind \in {"absent", "null"})
                /\ v.kind = "str" =>
                      /\ Persisted(r).screenshots[slot] = Str(PathOf(token, slot))
                      /\ NameOf(token, slot) \in written

\* C7, amended: the persisted screenshots[slot] is null exactly when the
\* submitted value is absent, null or the empty string, and for every
\* non-empty string is the path media/<token>-<slot>.png of a file that was
\* written.
C7_NullIffNotProvided ==
    \A r \in Reqs : \A slot \in Slots :
        JustSucceeded(r) =>
            LET v == log[r].screenshots[slot]
                token == TokenOf(log[r].timestamp)
            IN  /\ Stored(r)
                /\ (Persisted(r).screenshots[slot] = Null) <=>
                      (v.kind \in {"absent", "null"} \/ v = Str(<<>>))
                /\ (v.kind = "str" /\ v.s # <<>>) =>
                      /\ Persisted(r).screenshots[slot] = Str(PathOf(token, slot))
                      /\ NameOf(token, slot) \in written

\* A success that stored null for an empty string, and one that stored a
\* path beside a null for an absent key.
C7_Witness ==
    /\ \E r \in Reqs :
          /\ Stored(r)
          /\ log[r].screenshots.before = Str(<<>>)
          /\ Persisted(r).screenshots.before = Null
          /\ log[r].screenshots.after.kind = "str"
          /\ Persisted(r).screenshots.after # Null

\* C8: two successive successful submissions whose timestamps give the same
\* token and that both carry a screenshot (a non-empty string) in one slot:
\* after the second call the image file holds the second call's decoded
\* bytes, and both records are in the log, in submission order, each with
\* that same path.
C8_CollisionOverwrites ==
    \A r \in Reqs : \A slot \in Slots : \A i \in 1..(Len(succeeded) - 1) :
        LET n == Len(succeeded)
            first == succeeded[i]
            second == succeeded[n]
            token == TokenOf(second.entry.timestamp)
        IN  (/\ JustSucceeded(r)
             /\ second.entry.designPrompt = r
             /\ TokenOf(first.entry.timestamp) = token
             /\ slot \in first.carried \cap second.carried) =>
                /\ NameOf(token, slot) \in DOMAIN MEDIA_DIR
                /\ MEDIA_DIR[NameOf(token, slot)] =
                      b64decode(base64_data(log[r].screenshots[slot].s)).bytes
                /\ LOG_FILE.valid
                /\ Len(LOG_FILE.recs) = n
                /\ LOG_FILE.recs[i] = first.entry
                /\ LOG_FILE.recs[n] = second.entry
                /\ LOG_FILE.recs[i].screenshots[slot] = Str(PathOf(token, slot))
                /\ LOG_FILE.recs[n].screenshots[slot] = Str(PathOf(token, slot))

\* Two different timestamps with one token; the first call wrote other bytes
\* than the second, whose bytes the file now holds.
C8_Witness ==
    /\ Len(succeeded) = 2
    /\ JustSucceeded(2)
    /\ succeeded[1].entry.timestamp # succeeded[2].entry.timestamp
    /\ TokenOf(succeeded[1].entry.timestamp) = TokenOf(succeeded[2].entry.timestamp)
    /\ "before" \in succeeded[1].carried \cap succeeded[2].carried
    /\ log[2].screenshots.before = Str(B64_DEF)
    /\ MEDIA_DIR[NameOf(TokenOf(log[2].timestamp), "before")] = <<68, 69, 70>>
    /\ Len(LOG_FILE.recs) = 2

\* C9: when a record is written to the log, every non-null screenshot path
\* in it names a file that exists in the media directory and that a write
\* of decoded bytes has completed on; and a request whose decoding failed,
\* in either slot, has no record in the log.
C9_PathsNameWrittenFiles ==
    \A r \in Reqs :
        /\ JustSucceeded(r) =>
              /\ Stored(r)
              /\ \A slot \in Slots :
                    Persisted(r).screenshots[slot] # Null =>
                        \E name \in DOMAIN MEDIA_DIR :
                            /\ Persisted(r).screenshots[slot] = Str(<<"m", "e", "d", "i", "a", "/">> \o name)
                            /\ name \in written
        /\ resp[r].detail = "binascii.Error" =>
              /\ resp[r].status_code = 500
              /\ LOG_FILE.valid => RecordsOf(r) = {}
              /\ \A i \in 1..Len(succeeded) : succeeded[i].entry.designPrompt # r

\* A record with a path was written, and a request whose after screenshot
\* failed to decode, after its before file was written, left no record.
C9_Witness ==
    /\ pc[2] = "done"
    /\ resp[2].detail = "binascii.Error"
    /\ Truthy(log[2].screenshots.before)
    /\ b64decode(base64_data(log[2].screenshots.before.s)).ok
    /\ NameOf(TokenOf(log[2].timestamp), "before") \in written
    /\ Truthy(log[2].screenshots.after)
    /\ LOG_FILE.valid
    /\ Len(LOG_FILE.recs) = 1
    /\ LOG_FILE.recs[1].screenshots.before # Null

\* C10: the bytes written for a screenshot string s are the base64 decoding
\* of everything after the first comma of s when s has a comma, and of s
\* otherwise.
C10_DecodesAfterFirstComma ==
    \A r \in Reqs : \A slot \in Slots :
        (/\ pc[r] = AfterSlot(slot)
         /\ log[r].screenshots[slot].kind = "str"
         /\ log[r].screenshots[slot].s # <<>>) =>
            /\ NameOf(TokenOf(log[r].timestamp), slot) \in DOMAIN MEDIA_DIR
            /\ MEDIA_DIR[NameOf(TokenOf(log[r].timestamp), slot)] =
                  b64decode(AfterFirstComma(log[r].screenshots[slot].s)).bytes

====
